---- MODULE Spec2Model ----
(***************************************************************************)
(* klog: the multi-pod log multiplexer of src/src/commands/log.rs.         *)
(*                                                                         *)
(* start_log_stream creates a bounded mpsc channel, spawns one tail_logs   *)
(* worker per target, enters raw mode, compiles the include/exclude        *)
(* patterns and then runs the control loop (tokio::select! between         *)
(* rx.recv() and a 50 ms tick that polls the keyboard).                    *)
(*                                                                         *)
(* Strings are modelled as tuples of one-character strings so that         *)
(* to_lowercase, contains and is_match are computed, not assumed.          *)
(* Every write to the terminal may succeed or fail: print!, println! and   *)
(* eprintln! panic when the write fails, and the crossterm calls return an *)
(* error that the code propagates (`?`), unwraps or discards.              *)
(***************************************************************************)
EXTENDS Integers, Sequences, FiniteSets, TLC

VARIABLES
    targets,   \* the targets handed to start_log_stream
    tail,      \* the tail argument (&str)
    size,      \* what terminal::size() reports: <<cols, rows>>
    faulty,    \* the targets whose source can yield read errors
    pc,        \* position of start_log_stream
    result,    \* "running", or how start_log_stream ended: "Ok", the call whose
               \* error was returned ("Err:..."), or the call that panicked ("Panic:...")
    filter,    \* the include pattern (Option<String>)
    exclude,   \* the exclude pattern (Option<String>)
    chan,      \* messages pending in the mpsc channel, oldest first
    history,   \* VecDeque<LogMessage>, oldest first
    received,  \* every message rx.recv() has returned, in order (history of the run)
    rendered,  \* every message handed to print_log_line, in order
    term,      \* the terminal: raw-mode flag, footer line, last thing written
    query,     \* the text the operator typed at the search prompt
    matches,   \* the search result collected from the history
    wpc,       \* position of each tail_logs worker
    pending,   \* the message a worker is sending
    yielded,   \* the lines each worker's source has yielded so far, in order
    failed     \* whether each worker's source has yielded a read error

vars == <<targets, tail, size, faulty, pc, result, filter, exclude, chan, history,
          received, rendered, term, query, matches, wpc, pending, yielded, failed>>

-----------------------------------------------------------------------------
(* Bounds of the model.  HistoryCap and ChanCap stand for the literals 1000 *)
(* (log.rs:162, 183) and 100 (log.rs:161), scaled down so that eviction and *)
(* a full channel happen within MaxLines lines per worker.                  *)

MaxLines == 2
HistoryCap == 2
ChanCap == 2

-----------------------------------------------------------------------------
(* Strings *)

None == <<"None">>

UpperCase == <<"A", "B", "C", "D", "E", "F", "G", "H", "I", "J", "K", "L", "M",
               "N", "O", "P", "Q", "R", "S", "T", "U", "V", "W", "X", "Y", "Z">>
LowerCase == <<"a", "b", "c", "d", "e", "f", "g", "h", "i", "j", "k", "l", "m",
               "n", "o", "p", "q", "r", "s", "t", "u", "v", "w", "x", "y", "z">>

\* char::to_lowercase on ASCII: an upper-case letter becomes its lower-case
\* letter, every other character is kept
to_lowercase_char(c) ==
    IF \E k \in 1..Len(UpperCase) : UpperCase[k] = c
    THEN LowerCase[CHOOSE k \in 1..Len(UpperCase) : UpperCase[k] = c]
    ELSE c

\* str::to_lowercase
to_lowercase(s) == [i \in 1..Len(s) |-> to_lowercase_char(s[i])]

\* str::contains with a string pattern: some window of s equals sub
contains(s, sub) ==
    \E i \in 0..(Len(s) - Len(sub)) : SubSeq(s, i + 1, i + Len(sub)) = sub

\* Regex::new, for the patterns of the model (literal characters, or an
\* unclosed group): a pattern with an unclosed group does not compile
RegexNew(p) == IF \E i \in 1..Len(p) : p[i] = "(" THEN "Err" ELSE "Ok"

\* Regex::is_match for a pattern of literal characters: unanchored, case-sensitive
is_match(re, text) == contains(text, re)

-----------------------------------------------------------------------------
(* Targets, lines and messages *)

\* a target handed to start_log_stream: (pod name, container name)
Target(pod) == [pod_name |-> pod, container_name |-> <<"c">>]

\* the targets of the general runs
DefaultTargets == { Target(<<"p", "a">>), Target(<<"p", "b">>) }

\* the targets of end-to-end scenario A: web-1 and web-2
ScenarioTargets == { Target(<<"w", "e", "b", "-", "1">>),
                     Target(<<"w", "e", "b", "-", "2">>) }

\* the lines each target of scenario A emits, in this order:
\* start, ready, error: boom
ScenarioLines == << <<"s", "t", "a", "r", "t">>,
                    <<"r", "e", "a", "d", "y">>,
                    <<"e", "r", "r", "o", "r", ":", " ", "b", "o", "o", "m">> >>

\* the exclude pattern of scenario A
ScenarioExclude == <<"s", "t", "a", "r", "t">>

\* the targets of the runs under the scheduling of the runtime
LiveTargets == { Target(<<"p", "c">>), Target(<<"p", "d">>) }

\* the lines the source of each of these targets yields, in this order: no two
\* are the same, so that a message tells which line of its source it carries
LiveLines == << <<"a">>, <<"b">>, <<"a", "b">>, <<"B">> >>

\* the targets of the run
Targets == targets

\* the lines the source of a target can yield
Lines(w) ==
    IF w \in ScenarioTargets THEN { ScenarioLines[i] : i \in 1..Len(ScenarioLines) }
    ELSE IF w \in LiveTargets THEN { LiveLines[i] : i \in 1..Len(LiveLines) }
    ELSE IF w.pod_name = <<"p", "a">> THEN { <<"a", "b">>, <<"b">> }
                                      ELSE { <<"B">> }

\* the patterns the operator can pass
FilterArgs  == { None, <<"b">>, <<"(">> }
ExcludeArgs == { None, <<"a">>, <<"(">> }

\* the tail arguments the operator can pass: everything, a number, not a number
TailArgs == { <<"*">>, <<"x">> }

\* the sets of targets whose source can yield read errors
FaultyArgs == { {}, { Target(<<"p", "b">>) } }

\* the combinations of arguments and sources of the general runs: every pair
\* of patterns with the default tail and sources that yield no read error,
\* and every tail and set of faulty sources with no pattern
Args ==
    { a \in [tail : TailArgs, filter : FilterArgs, exclude : ExcludeArgs,
             faulty : FaultyArgs] :
        \/ a.tail = <<"*">> /\ a.faulty = {}
        \/ a.filter = None /\ a.exclude = None /\ a.tail # <<"*">> /\ a.faulty # {} }

\* the arguments of scenario A; the source of web-2 may yield read errors
\* between its lines
ScenarioArgs == [tail |-> <<"*">>, filter |-> None, exclude |-> ScenarioExclude,
                 faulty |-> { Target(<<"w", "e", "b", "-", "2">>) }]

\* the queries the operator can type at the search prompt
Queries == { <<>>, <<"a">>, <<"A">>, <<"b">>, <<"A", "B">>, <<"b", "a">> }

\* LogMessage { pod_name, container_name, message }
LogMessage(w, line) ==
    [pod_name |-> w.pod_name, container_name |-> w.container_name, message |-> line]

NoMessage == [pod_name |-> <<>>, container_name |-> <<>>, message |-> <<>>]

-----------------------------------------------------------------------------
(* The tail argument, log.rs:262-272 *)

Digits == <<"0", "1", "2", "3", "4", "5", "6", "7", "8", "9">>

IsDigit(c) == \E k \in 1..Len(Digits) : Digits[k] = c

DigitValue(c) == (CHOOSE k \in 1..Len(Digits) : Digits[k] = c) - 1

\* the digits of s after an optional sign
Unsigned(s) == IF s # <<>> /\ Head(s) \in {"+", "-"} THEN Tail(s) ELSE s

\* str::parse::<i64> succeeds: an optional sign and at least one digit, all
\* digits (tail arguments long enough to overflow an i64 are not modelled)
ParsesAsI64(s) ==
    /\ Unsigned(s) # <<>>
    /\ \A i \in 1..Len(Unsigned(s)) : IsDigit(Unsigned(s)[i])

RECURSIVE DigitsValue(_)
DigitsValue(d) ==
    IF d = <<>> THEN 0
    ELSE 10 * DigitsValue(SubSeq(d, 1, Len(d) - 1)) + DigitValue(d[Len(d)])

\* the value str::parse::<i64> returns
ParseI64(s) ==
    IF s # <<>> /\ Head(s) = "-" THEN 0 - DigitsValue(Unsigned(s))
                                 ELSE DigitsValue(Unsigned(s))

\* log.rs:268: the value a tail that is not a number defaults to
DefaultTail == 50

\* log.rs:265-269: the Err arm of the parse, which also prints a warning
TailIsInvalid(t) == t # <<"*">> /\ ~ParsesAsI64(t)

\* log.rs:262-272: tail_setting, the tail_lines of the LogParams
TailSetting(t) ==
    IF t = <<"*">> THEN None
    ELSE IF ParsesAsI64(t) THEN ParseI64(t)
    ELSE DefaultTail

-----------------------------------------------------------------------------
(* Pure steps of the control loop *)

\* HistoryPush with the capacity test off by one (`>` for `>=`)
HistoryPushLate(h, log) ==
    LET kept == IF Len(h) > HistoryCap THEN Tail(h) ELSE h
    IN  Append(kept, log)

\* HistoryPush with push_front for push_back
HistoryPushFront(h, log) ==
    LET kept == IF Len(h) >= HistoryCap THEN Tail(h) ELSE h
    IN  <<log>> \o kept

\* log.rs:183-184: evict the oldest entry when full, then append
HistoryPush(h, log) ==
    LET kept == IF Len(h) >= HistoryCap THEN Tail(h) ELSE h
    IN  Append(kept, log)

\* FilterKeeps without the exclude test
FilterKeepsNoExclude(f, e, log) ==
    IF f # None /\ ~is_match(f, log.message) THEN FALSE
    ELSE TRUE

\* FilterKeeps with the include test first: an include match prints the line
FilterKeepsIncludeFirst(f, e, log) ==
    IF f # None /\ is_match(f, log.message) THEN TRUE
    ELSE IF e # None /\ is_match(e, log.message) THEN FALSE
    ELSE f = None

\* log.rs:186-187: TRUE iff neither `continue` is taken
FilterKeeps(f, e, log) ==
    IF e # None /\ is_match(e, log.message) THEN FALSE
    ELSE IF f # None /\ ~is_match(f, log.message) THEN FALSE
    ELSE TRUE

\* SearchHistory without lower-casing the query
SearchHistoryRawQuery(h, q) ==
    SelectSeq(h, LAMBDA m : contains(to_lowercase(m.message), q))

\* log.rs:208-210: the retained messages whose lower-cased text contains the
\* lower-cased query
SearchHistory(h, q) ==
    SelectSeq(h, LAMBDA m : contains(to_lowercase(m.message), to_lowercase(q)))

-----------------------------------------------------------------------------
(* The terminal *)

Outcomes == {"ok", "fail"}

\* terminal::enable_raw_mode
EnableRawMode(t, o) ==
    IF o = "ok" THEN [t EXCEPT !.raw = TRUE, !.entered = TRUE] ELSE t

\* terminal::disable_raw_mode
DisableRawMode(t, o) == IF o = "ok" THEN [t EXCEPT !.raw = FALSE] ELSE t

\* log.rs:122: the size draw_footer assumes when terminal::size() fails, which
\* is also the size of the terminal in the general runs
DefaultSize == <<80, 24>>

\* the sizes the terminal takes in the runs that resize it: <<cols, rows>>
Sizes == {0, 30, 31, 32, 80} \X {0, 1, 24}

\* log.rs:125-126: the number of characters of " [s] Search History | [q] Quit "
FooterTextLen == 31

\* cols and rows are u16
U16 == 65536

\* log.rs:127-131: the number of blanks appended to the footer text
FooterPadding(cols) == IF cols > FooterTextLen THEN cols - FooterTextLen ELSE 0

\* log.rs:140: rows - 1 in u16 arithmetic, as a build without overflow checks
\* computes it (a build with overflow checks panics when rows = 0)
FooterRow(rows) == (rows - 1) % U16

\* draw_footer, when its execute! calls succeed: the size is read, the
\* cursor moves to the footer row, the text and its padding are printed
DrawFooter(t) ==
    [t EXCEPT !.footer = "drawn", !.last = "footer",
              !.fsize = size,
              !.flen = FooterTextLen + FooterPadding(size[1]),
              !.frow = FooterRow(size[2])]

\* print_log_line
PrintLogLine(t) == [t EXCEPT !.last = "line"]

\* println! of a banner (STREAM PAUSED / RESUMING)
PrintBanner(t) == [t EXCEPT !.last = "banner"]

\* log.rs:268: eprintln! of the invalid-tail warning
PrintWarning(t) == [t EXCEPT !.last = "warning"]

\* cleanup_terminal: the result of disable_raw_mode is discarded; the footer
\* line is cleared when execute! succeeds, and the unwrap panics otherwise
CleanupTerminal(t, d, x) ==
    LET t1 == DisableRawMode(t, d)
    IN  IF x = "ok" THEN [t1 EXCEPT !.footer = "cleared", !.last = "clear"] ELSE t1

-----------------------------------------------------------------------------
(* Control state of the loop, read off the position of start_log_stream *)

ControlState ==
    CASE pc \in {"spawn", "raw", "compile"}        -> "Starting"
      [] pc = "Streaming"                          -> "Streaming"
      [] pc \in {"SearchQuery", "SearchResults"}   -> "SearchPaused"
      [] pc = "Stopped"                            -> "Stopped"

\* rx is dropped when start_log_stream returns or unwinds
RxAlive == pc # "Stopped"

-----------------------------------------------------------------------------
\* the state when start_log_stream is entered with targets ts and arguments a,
\* on a terminal of size sz
Start(ts, a, sz) ==
    /\ targets = ts
    /\ tail = a.tail
    /\ size = sz
    /\ faulty = a.faulty
    /\ pc = "spawn"
    /\ result = "running"
    /\ filter = a.filter
    /\ exclude = a.exclude
    /\ chan = <<>>
    /\ history = <<>>
    /\ received = <<>>
    /\ rendered = <<>>
    /\ term = [raw |-> FALSE, entered |-> FALSE, footer |-> "none", last |-> "none",
               fsize |-> <<0, 0>>, flen |-> 0, frow |-> 0]
    /\ query = <<>>
    /\ matches = <<>>
    /\ wpc = [w \in ts |-> "unspawned"]
    /\ pending = [w \in ts |-> NoMessage]
    /\ yielded = [w \in ts |-> <<>>]
    /\ failed = [w \in ts |-> FALSE]

Init == \E a \in Args : Start(DefaultTargets, a, DefaultSize)

-----------------------------------------------------------------------------
(* start_log_stream *)

\* start_log_stream returns (or unwinds) with result r: rx is dropped, which
\* closes the channel and drops the messages still in it
Return(r) ==
    /\ pc' = "Stopped"
    /\ result' = r
    /\ chan' = <<>>

\* log.rs:165-171: spawn one tail_logs task per target, drop the original tx
SpawnWorkers ==
    /\ pc = "spawn"
    /\ pc' = "raw"
    /\ wpc' = [w \in Targets |-> "start"]
    /\ UNCHANGED <<result, targets, tail, size, faulty, filter, exclude, chan, history, received, rendered,
                   term, query, matches, pending, yielded, failed>>

\* log.rs:174-175: enable_raw_mode()? then draw_footer()
EnterRawMode ==
    /\ pc = "raw"
    /\ \E e \in Outcomes, f \in Outcomes :
          IF e = "fail"
          THEN /\ Return("Err:enable_raw_mode")
               /\ term' = term
          ELSE IF f = "fail"
          THEN /\ Return("Panic:draw_footer")
               /\ term' = EnableRawMode(term, "ok")
          ELSE /\ pc' = "compile"
               /\ term' = DrawFooter(EnableRawMode(term, "ok"))
               /\ UNCHANGED <<result, chan>>
    /\ UNCHANGED <<targets, tail, size, faulty, filter, exclude, history, received, rendered,
                   query, matches, wpc, pending, yielded, failed>>

\* log.rs:177-178: Regex::new(..).unwrap() for the include, then the exclude pattern
CompileFilters ==
    /\ pc = "compile"
    /\ IF filter # None /\ RegexNew(filter) = "Err"
       THEN Return("Panic:Regex::new")
       ELSE IF exclude # None /\ RegexNew(exclude) = "Err"
       THEN Return("Panic:Regex::new")
       ELSE /\ pc' = "Streaming"
            /\ UNCHANGED <<result, chan>>
    /\ UNCHANGED <<targets, tail, size, faulty, filter, exclude, history, received, rendered,
                   term, query, matches, wpc, pending, yielded, failed>>

\* RecvMessage that tests the filter first and keeps in the history only the
\* messages it renders
RecvMessageFilterFirst ==
    /\ pc = "Streaming"
    /\ chan # <<>>
    /\ LET log  == Head(chan)
           kept == /\ chan' = Tail(chan)
                   /\ UNCHANGED <<pc, result>>
       IN
       /\ received' = Append(received, log)
       /\ IF FilterKeeps(filter, exclude, log)
          THEN /\ history' = HistoryPush(history, log)
               /\ rendered' = Append(rendered, log)
               /\ \E p \in Outcomes, f \in Outcomes :
                     IF p = "fail"
                     THEN /\ term' = term
                          /\ Return("Panic:print_log_line")
                     ELSE IF f = "fail"
                     THEN /\ term' = PrintLogLine(term)
                          /\ Return("Panic:draw_footer")
                     ELSE /\ term' = DrawFooter(PrintLogLine(term))
                          /\ kept
          ELSE /\ kept
               /\ UNCHANGED <<history, rendered, term>>
    /\ UNCHANGED <<targets, tail, size, faulty, filter, exclude, query, matches, wpc, pending, yielded, failed>>

\* log.rs:182-192: the recv branch of the select: the message is pushed into
\* the history, filtered and handed to print_log_line, whose print! (log.rs:249)
\* panics when the write fails; then draw_footer, whose unwrap can panic
RecvMessage ==
    /\ pc = "Streaming"
    /\ chan # <<>>
    /\ LET log  == Head(chan)
           kept == /\ chan' = Tail(chan)
                   /\ UNCHANGED <<pc, result>>
       IN
       /\ history' = HistoryPush(history, log)
       /\ received' = Append(received, log)
       /\ IF FilterKeeps(filter, exclude, log)
          THEN /\ rendered' = Append(rendered, log)
               /\ \E p \in Outcomes, f \in Outcomes :
                     IF p = "fail"
                     THEN /\ term' = term
                          /\ Return("Panic:print_log_line")
                     ELSE IF f = "fail"
                     THEN /\ term' = PrintLogLine(term)
                          /\ Return("Panic:draw_footer")
                     ELSE /\ term' = DrawFooter(PrintLogLine(term))
                          /\ kept
          ELSE /\ kept
               /\ UNCHANGED <<rendered, term>>
    /\ UNCHANGED <<targets, tail, size, faulty, filter, exclude, query, matches, wpc, pending, yielded, failed>>

\* the terminal events event::read can return
KeyCodes == {"q", "s", "x"}
KeyKinds == {"Press", "Release"}
Events == [type : {"Key"}, kind : KeyKinds, code : KeyCodes]
             \cup {[type |-> "Resize", kind |-> "None", code |-> "None"]}

IsPress(ev, c) == ev.type = "Key" /\ ev.kind = "Press" /\ ev.code = c

\* TickIdle when the cancelled recv has already taken a message out of the channel
TickIdleLosesMessage ==
    /\ pc = "Streaming"
    /\ chan' = IF chan # <<>> THEN Tail(chan) ELSE chan
    /\ UNCHANGED <<pc, result, targets, tail, size, faulty, filter, exclude, history, received, rendered,
                   term, query, matches, wpc, pending, yielded, failed>>

\* TickIdle of a loop that ends when recv() reports the channel closed
TickIdleStopsWhenClosed ==
    /\ pc = "Streaming"
    /\ IF chan = <<>> /\ \A w \in Targets : wpc[w] = "done"
       THEN /\ term' = CleanupTerminal(term, "ok", "ok")
            /\ Return("Ok")
            /\ UNCHANGED <<targets, tail, size, faulty, filter, exclude, history, received,
                           rendered, query, matches, wpc, pending, yielded, failed>>
       ELSE UNCHANGED vars

\* log.rs:194-195: the tick fires and event::poll reports no event
TickIdle ==
    /\ pc = "Streaming"
    /\ UNCHANGED vars

\* log.rs:195-196: event::poll(..)? or event::read()? returns an error
TickError ==
    /\ pc = "Streaming"
    /\ Return("Err:event")
    /\ UNCHANGED <<targets, tail, size, faulty, filter, exclude, history, received, rendered,
                   term, query, matches, wpc, pending, yielded, failed>>

\* TickIgnored without the test of key.kind: the release of 'q' quits as well
TickIgnoredAnyKind(ev) ==
    /\ pc = "Streaming"
    /\ ~IsPress(ev, "q")
    /\ ~IsPress(ev, "s")
    /\ IF ev.type = "Key" /\ ev.code = "q"
       THEN /\ term' = CleanupTerminal(term, "ok", "ok")
            /\ Return("Ok")
            /\ UNCHANGED <<targets, tail, size, faulty, filter, exclude, history, received,
                           rendered, query, matches, wpc, pending, yielded, failed>>
       ELSE UNCHANGED vars

\* log.rs:196-198, 225: an event that is not a key press, or a press of another key
TickIgnored(ev) ==
    /\ pc = "Streaming"
    /\ ~IsPress(ev, "q")
    /\ ~IsPress(ev, "s")
    /\ UNCHANGED vars

\* KeyQuit that cleans the terminal up but does not leave the loop
KeyQuitNoBreak(ev) ==
    /\ pc = "Streaming"
    /\ IsPress(ev, "q")
    /\ term' = CleanupTerminal(term, "ok", "ok")
    /\ UNCHANGED <<pc, result, targets, tail, size, faulty, filter, exclude, chan, history, received, rendered,
                   query, matches, wpc, pending, yielded, failed>>

\* KeyQuit that receives and renders what is still in the channel before it stops
KeyQuitFlushes(ev) ==
    /\ pc = "Streaming"
    /\ IsPress(ev, "q")
    /\ received' = received \o chan
    /\ rendered' = rendered \o SelectSeq(chan, LAMBDA m : FilterKeeps(filter, exclude, m))
    /\ \E d \in Outcomes, x \in Outcomes :
          /\ term' = CleanupTerminal(term, d, x)
          /\ Return(IF x = "ok" THEN "Ok" ELSE "Panic:cleanup_terminal")
    /\ UNCHANGED <<targets, tail, size, faulty, filter, exclude, history,
                   query, matches, wpc, pending, yielded, failed>>

\* log.rs:200, 235-236: 'q' breaks the loop; cleanup_terminal(), whose unwrap
\* (log.rs:308) and final println! (log.rs:311) can panic; Ok(())
KeyQuit(ev) ==
    /\ pc = "Streaming"
    /\ IsPress(ev, "q")
    /\ \E d \in Outcomes, x \in Outcomes, n \in Outcomes :
          /\ term' = CleanupTerminal(term, d, x)
          /\ Return(IF x = "ok" /\ n = "ok" THEN "Ok" ELSE "Panic:cleanup_terminal")
    /\ UNCHANGED <<targets, tail, size, faulty, filter, exclude, history, received, rendered,
                   query, matches, wpc, pending, yielded, failed>>

\* KeySearch that empties the channel when the stream is paused
KeySearchDrains(ev) ==
    /\ pc = "Streaming"
    /\ IsPress(ev, "s")
    /\ pc' = "SearchQuery"
    /\ term' = PrintBanner(DisableRawMode(term, "ok"))
    /\ chan' = <<>>
    /\ UNCHANGED <<result, targets, tail, size, faulty, filter, exclude, history,
                   received, rendered, query, matches, wpc, pending, yielded, failed>>

\* log.rs:202-207: 's' leaves raw mode (`?` returns the error), prints the
\* banner (println! panics when the write fails) and opens the Text prompt
KeySearch(ev) ==
    /\ pc = "Streaming"
    /\ IsPress(ev, "s")
    /\ \E d \in Outcomes, b \in Outcomes :
          IF d = "fail"
          THEN /\ Return("Err:disable_raw_mode")
               /\ term' = term
          ELSE IF b = "fail"
          THEN /\ Return("Panic:println")
               /\ term' = DisableRawMode(term, "ok")
          ELSE /\ pc' = "SearchQuery"
               /\ term' = PrintBanner(DisableRawMode(term, "ok"))
               /\ UNCHANGED <<result, chan>>
    /\ UNCHANGED <<targets, tail, size, faulty, filter, exclude, history, received, rendered,
                   query, matches, wpc, pending, yielded, failed>>

\* log.rs:219-223: println!(RESUMING), which panics when the write fails;
\* enable_raw_mode()?; draw_footer()
Resume ==
    \E b \in Outcomes, e \in Outcomes, f \in Outcomes :
        IF b = "fail"
        THEN /\ Return("Panic:println")
             /\ term' = term
        ELSE IF e = "fail"
        THEN /\ Return("Err:enable_raw_mode")
             /\ term' = PrintBanner(term)
        ELSE IF f = "fail"
        THEN /\ Return("Panic:draw_footer")
             /\ term' = EnableRawMode(PrintBanner(term), "ok")
        ELSE /\ pc' = "Streaming"
             /\ term' = DrawFooter(EnableRawMode(PrintBanner(term), "ok"))
             /\ UNCHANGED <<result, chan>>

\* log.rs:207: the Text prompt is cancelled or fails; `?` returns the error
SearchCancel ==
    /\ pc = "SearchQuery"
    /\ Return("Err:prompt")
    /\ UNCHANGED <<targets, tail, size, faulty, filter, exclude, history, received, rendered,
                   term, query, matches, wpc, pending, yielded, failed>>

\* log.rs:207-210: the operator submits a query and the matches are collected
SearchSubmit(q) ==
    /\ pc = "SearchQuery"
    /\ query' = q
    /\ matches' = SearchHistory(history, q)
    /\ pc' = "SearchResults"
    /\ UNCHANGED <<result, targets, tail, size, faulty, filter, exclude, chan, history, received, rendered,
                   term, wpc, pending, yielded, failed>>

\* SearchSelect that takes the entries shown to the operator out of the history
SearchSelectRemoves ==
    /\ pc = "SearchResults"
    /\ query' = <<>>
    /\ matches' = <<>>
    /\ history' = SelectSeq(history,
                            LAMBDA m : \A i \in 1..Len(matches) : matches[i] # m)
    /\ Resume
    /\ UNCHANGED <<targets, tail, size, faulty, filter, exclude, received, rendered,
                   wpc, pending, yielded, failed>>

\* log.rs:212-223: when there are matches the Select prompt runs until an entry
\* is chosen or the prompt is cancelled or fails (its result is discarded); then
\* the loop resumes
SearchSelect ==
    /\ pc = "SearchResults"
    /\ query' = <<>>
    /\ matches' = <<>>
    /\ Resume
    /\ UNCHANGED <<targets, tail, size, faulty, filter, exclude, history, received, rendered,
                   wpc, pending, yielded, failed>>

-----------------------------------------------------------------------------
(* tail_logs *)

\* log.rs:261-280: the task of the worker starts: the tail is parsed (a tail
\* that is neither "*" nor a number prints a warning, and the eprintln! panics
\* when the write fails, which ends the task), the LogParams are built and
\* pods.log_stream(..) is awaited
ParseTail(w) ==
    /\ wpc[w] = "start"
    /\ IF TailIsInvalid(tail)
       THEN \E o \in Outcomes :
               IF o = "ok"
               THEN /\ term' = PrintWarning(term)
                    /\ wpc' = [wpc EXCEPT ![w] = "open"]
               ELSE /\ term' = term
                    /\ wpc' = [wpc EXCEPT ![w] = "done"]
       ELSE /\ term' = term
            /\ wpc' = [wpc EXCEPT ![w] = "open"]
    /\ UNCHANGED <<pc, result, targets, tail, size, faulty, filter, exclude, chan, history, received, rendered,
                   query, matches, pending, yielded, failed>>

\* OpenStream whose open failure is propagated into start_log_stream
OpenStreamFatal(w) ==
    /\ wpc[w] = "open"
    /\ \E o \in Outcomes :
          IF o = "ok"
          THEN /\ wpc' = [wpc EXCEPT ![w] = "read"]
               /\ UNCHANGED <<pc, result, chan>>
          ELSE /\ wpc' = [wpc EXCEPT ![w] = "done"]
               /\ Return("Err:log_stream")
    /\ UNCHANGED <<targets, tail, size, faulty, filter, exclude, history, received, rendered,
                   term, query, matches, pending, yielded, failed>>

\* log.rs:281: pods.log_stream(..).await? completes: the stream is open, or the
\* error is returned and the worker ends
OpenStream(w) ==
    /\ wpc[w] = "open"
    /\ \E o \in Outcomes :
          wpc' = [wpc EXCEPT ![w] = IF o = "ok" THEN "read" ELSE "done"]
    /\ UNCHANGED <<pc, result, targets, tail, size, faulty, filter, exclude, chan, history, received, rendered,
                   term, query, matches, pending, yielded, failed>>

\* the lines the source of w can yield next: the targets of scenario A and
\* the live targets emit their lines in order, the others any of their lines,
\* MaxLines at most
NextLines(w) ==
    IF w \in ScenarioTargets
    THEN IF Len(yielded[w]) < Len(ScenarioLines)
         THEN { ScenarioLines[Len(yielded[w]) + 1] }
         ELSE {}
    ELSE IF w \in LiveTargets
    THEN IF Len(yielded[w]) < MaxLines /\ Len(yielded[w]) < Len(LiveLines)
         THEN { LiveLines[Len(yielded[w]) + 1] }
         ELSE {}
    ELSE IF Len(yielded[w]) < MaxLines THEN Lines(w) ELSE {}

\* log.rs:284-290: lines.next() yields Ok(line); the message is built
NextLine(w, line) ==
    /\ wpc[w] = "read"
    /\ line \in NextLines(w)
    /\ yielded' = [yielded EXCEPT ![w] = Append(@, line)]
    /\ pending' = [pending EXCEPT ![w] = LogMessage(w, line)]
    /\ wpc' = [wpc EXCEPT ![w] = "send"]
    /\ UNCHANGED <<pc, result, targets, tail, size, faulty, filter, exclude, chan, history, received, rendered,
                   term, query, matches, failed>>

\* log.rs:284-285: lines.next() yields Err(_); the item is skipped and the loop goes on
NextError(w) ==
    /\ wpc[w] = "read"
    /\ w \in faulty
    /\ failed' = [failed EXCEPT ![w] = TRUE]
    /\ UNCHANGED <<targets, tail, size, faulty, pc, result, filter, exclude, chan, history,
                   received, rendered, term, query, matches, wpc, pending, yielded>>

\* log.rs:284, 296: lines.next() yields None; the worker returns Ok(())
EndOfStream(w) ==
    /\ wpc[w] = "read"
    /\ wpc' = [wpc EXCEPT ![w] = "done"]
    /\ UNCHANGED <<pc, result, targets, tail, size, faulty, filter, exclude, chan, history, received, rendered,
                   term, query, matches, pending, yielded, failed>>

\* Send with try_send semantics: a message that finds the channel full is dropped
SendOrDrop(w) ==
    /\ wpc[w] = "send"
    /\ IF ~RxAlive
       THEN /\ wpc' = [wpc EXCEPT ![w] = "done"]
            /\ chan' = chan
       ELSE /\ chan' = IF Len(chan) < ChanCap THEN Append(chan, pending[w]) ELSE chan
            /\ wpc' = [wpc EXCEPT ![w] = "read"]
    /\ pending' = [pending EXCEPT ![w] = NoMessage]
    /\ UNCHANGED <<pc, result, targets, tail, size, faulty, filter, exclude, history, received, rendered,
                   term, query, matches, yielded, failed>>

\* Send into a channel without a capacity
SendUnbounded(w) ==
    /\ wpc[w] = "send"
    /\ IF ~RxAlive
       THEN /\ wpc' = [wpc EXCEPT ![w] = "done"]
            /\ chan' = chan
       ELSE /\ chan' = Append(chan, pending[w])
            /\ wpc' = [wpc EXCEPT ![w] = "read"]
    /\ pending' = [pending EXCEPT ![w] = NoMessage]
    /\ UNCHANGED <<pc, result, targets, tail, size, faulty, filter, exclude, history, received, rendered,
                   term, query, matches, yielded, failed>>

\* Send that does not notice that rx is gone: it waits for room and delivers
SendIgnoresClosed(w) ==
    /\ wpc[w] = "send"
    /\ Len(chan) < ChanCap
    /\ chan' = Append(chan, pending[w])
    /\ wpc' = [wpc EXCEPT ![w] = "read"]
    /\ pending' = [pending EXCEPT ![w] = NoMessage]
    /\ UNCHANGED <<pc, result, targets, tail, size, faulty, filter, exclude, history, received, rendered,
                   term, query, matches, yielded, failed>>

\* log.rs:291-293: tx.send(msg).await: delivered when the channel has room, an
\* error (break) when rx is gone, and pending while the channel is full
Send(w) ==
    /\ wpc[w] = "send"
    /\ IF ~RxAlive
       THEN /\ wpc' = [wpc EXCEPT ![w] = "done"]
            /\ chan' = chan
       ELSE /\ Len(chan) < ChanCap
            /\ chan' = Append(chan, pending[w])
            /\ wpc' = [wpc EXCEPT ![w] = "read"]
    /\ pending' = [pending EXCEPT ![w] = NoMessage]
    /\ UNCHANGED <<pc, result, targets, tail, size, faulty, filter, exclude, history, received, rendered,
                   term, query, matches, yielded, failed>>

-----------------------------------------------------------------------------
Next ==
    \/ SpawnWorkers
    \/ EnterRawMode
    \/ CompileFilters
    \/ RecvMessage
    \/ TickIdle
    \/ TickError
    \/ \E ev \in Events : TickIgnored(ev)
    \/ \E ev \in Events : KeyQuit(ev)
    \/ \E ev \in Events : KeySearch(ev)
    \/ SearchCancel
    \/ \E q \in Queries : SearchSubmit(q)
    \/ SearchSelect
    \/ \E w \in Targets : ParseTail(w)
    \/ \E w \in Targets : OpenStream(w)
    \/ \E w \in Targets : \E line \in Lines(w) : NextLine(w, line)
    \/ \E w \in Targets : NextError(w)
    \/ \E w \in Targets : EndOfStream(w)
    \/ \E w \in Targets : Send(w)

Spec == Init /\ [][Next]_vars

-----------------------------------------------------------------------------
(* The runs with the scheduling of the runtime.  A worker whose send can   *)
(* complete is polled again by the tokio runtime, so Send is weakly fair.  *)
(* Each iteration of the loop polls rx.recv() against a sleep created in   *)
(* that iteration (log.rs:181-194): a message that is in the channel when   *)
(* the select is entered is taken before the tick can fire, so RecvMessage  *)
(* is strongly fair (a pause disables it, the return to the loop enables it *)
(* again).  Nothing is assumed of the operator, nor of when a source       *)
(* yields its lines or ends.  These runs have the two targets LiveTargets,  *)
(* whose sources yield the lines LiveLines in order, each line different    *)
(* from the others.                                                         *)

LiveArgs == [tail |-> <<"*">>, filter |-> None, exclude |-> None,
             faulty |-> { Target(<<"p", "c">>) }]

InitLive == Start(LiveTargets, LiveArgs, DefaultSize)

Fairness ==
    /\ SF_vars(RecvMessage)
    /\ \A w \in LiveTargets : WF_vars(Send(w))

FairSpec == InitLive /\ [][Next]_vars /\ Fairness

-----------------------------------------------------------------------------
(* End-to-end scenario A: the targets web-1 and web-2, each emitting start, *)
(* ready, error: boom, with the exclude pattern "start"                     *)

InitA == Start(ScenarioTargets, ScenarioArgs, DefaultSize)

SpecA == InitA /\ [][Next]_vars

-----------------------------------------------------------------------------
(* draw_footer on terminals of every size in Sizes: the operator resizes    *)
(* the terminal while start_log_stream runs, pauses and resumes; the        *)
(* workers are still waiting for their streams to open.                     *)

PlainArgs == [tail |-> <<"*">>, filter |-> None, exclude |-> None, faulty |-> {}]

InitFooter == \E sz \in Sizes : Start(DefaultTargets, PlainArgs, sz)

\* the terminal is resized: terminal::size() reports sz from now on
Resize(sz) ==
    /\ pc # "Stopped"
    /\ size' = sz
    /\ UNCHANGED <<targets, tail, faulty, pc, result, filter, exclude, chan, history,
                   received, rendered, term, query, matches, wpc, pending, yielded,
                   failed>>

NextFooter ==
    \/ \E sz \in Sizes : Resize(sz)
    \/ SpawnWorkers
    \/ EnterRawMode
    \/ CompileFilters
    \/ \E ev \in Events : KeySearch(ev)
    \/ \E q \in Queries : SearchSubmit(q)
    \/ SearchSelect
    \/ \E ev \in Events : KeyQuit(ev)

SpecFooter == InitFooter /\ [][NextFooter]_vars

-----------------------------------------------------------------------------
(* Vocabulary of the properties *)

Min(a, b) == IF a <= b THEN a ELSE b

\* the last n elements of seq
LastN(seq, n) == SubSeq(seq, Len(seq) - n + 1, Len(seq))

IsPrefix(s, t) == Len(s) <= Len(t) /\ SubSeq(t, 1, Len(s)) = s

IsSuffix(s, t) == Len(s) <= Len(t) /\ LastN(t, Len(s)) = s

\* s can be obtained from t by deleting elements
RECURSIVE IsSubseq(_, _)
IsSubseq(s, t) ==
    IF s = <<>> THEN TRUE
    ELSE IF t = <<>> THEN FALSE
    ELSE IF Head(s) = Head(t) THEN IsSubseq(Tail(s), Tail(t))
    ELSE IsSubseq(s, Tail(t))

\* the messages of seq that carry the names of target w
OfWorker(seq, w) ==
    SelectSeq(seq, LAMBDA m : m.pod_name = w.pod_name
                              /\ m.container_name = w.container_name)

\* the lines the source of w has yielded, each as the message the worker owes
Owed(w) ==
    [i \in 1..Len(yielded[w]) |->
        [pod_name |-> w.pod_name, container_name |-> w.container_name,
         message |-> yielded[w][i]]]

\* everything that was put into the channel, in order
Delivered == received \o chan

RECURSIVE SumYielded(_)
SumYielded(ws) ==
    IF ws = {} THEN 0
    ELSE LET w == CHOOSE x \in ws : TRUE
         IN  Len(yielded[w]) + SumYielded(ws \ {w})

\* text contains q ignoring case, stated character by character
ContainsIgnoringCase(text, q) ==
    \E i \in 0..(Len(text) - Len(q)) :
        \A j \in 1..Len(q) :
            to_lowercase_char(text[i + j]) = to_lowercase_char(q[j])

\* the filter rule of the specification, on the message text alone
ShouldRender(m) ==
    /\ (exclude = None \/ ~is_match(exclude, m.message))
    /\ (filter = None \/ is_match(filter, m.message))

\* the texts of the messages of seq
Texts(seq) == [i \in 1..Len(seq) |-> seq[i].message]

\* worker w is sending, the channel is full and rx is alive
Blocked(w) == RxAlive /\ wpc[w] = "send" /\ Len(chan) = ChanCap

InvalidPattern ==
    \/ filter # None /\ RegexNew(filter) = "Err"
    \/ exclude # None /\ RegexNew(exclude) = "Err"

-----------------------------------------------------------------------------
(* Streams that are followed: LogParams.follow is true (log.rs:274), so the *)
(* stream of a running container does not end and its worker goes on        *)
(* delivering lines.  In these runs the operator has pressed 'q': the press *)
(* waits in the event queue of the terminal, and a tick that fires handles  *)
(* it.  The records yielded, received and rendered keep their most recent   *)
(* MaxLines entries, so that a run without end stays within finitely many   *)
(* states.                                                                  *)

\* the most recent MaxLines entries of seq
Recent(seq) == LastN(seq, Min(Len(seq), MaxLines))

\* the targets of these runs; the source of each yields the line "B" over and
\* over
FollowTargets == { Target(<<"p", "b">>), Target(<<"p", "e">>) }

InitFollow == Start(FollowTargets, PlainArgs, DefaultSize)

\* log.rs:182-192: the recv branch of the select
RecvMessageFollowed ==
    /\ pc = "Streaming"
    /\ chan # <<>>
    /\ LET log  == Head(chan)
           kept == /\ chan' = Tail(chan)
                   /\ UNCHANGED <<pc, result>>
       IN
       /\ history' = HistoryPush(history, log)
       /\ received' = Recent(Append(received, log))
       /\ IF FilterKeeps(filter, exclude, log)
          THEN /\ rendered' = Recent(Append(rendered, log))
               /\ \E p \in Outcomes, f \in Outcomes :
                     IF p = "fail"
                     THEN /\ term' = term
                          /\ Return("Panic:print_log_line")
                     ELSE IF f = "fail"
                     THEN /\ term' = PrintLogLine(term)
                          /\ Return("Panic:draw_footer")
                     ELSE /\ term' = DrawFooter(PrintLogLine(term))
                          /\ kept
          ELSE /\ kept
               /\ UNCHANGED <<rendered, term>>
    /\ UNCHANGED <<targets, tail, size, faulty, filter, exclude, query, matches, wpc, pending, yielded, failed>>

\* log.rs:284-290: lines.next() of a followed stream yields Ok(line)
NextLineFollowed(w, line) ==
    /\ wpc[w] = "read"
    /\ line \in Lines(w)
    /\ yielded' = [yielded EXCEPT ![w] = Recent(Append(@, line))]
    /\ pending' = [pending EXCEPT ![w] = LogMessage(w, line)]
    /\ wpc' = [wpc EXCEPT ![w] = "send"]
    /\ UNCHANGED <<pc, result, targets, tail, size, faulty, filter, exclude, chan, history, received, rendered,
                   term, query, matches, failed>>

\* log.rs:181-200: the select is entered with no message in the channel and
\* none arrives before the sleep of this iteration completes; the tick fires
\* and handles the press of 'q'
QuietTickQuit ==
    /\ chan = <<>>
    /\ \E ev \in Events : KeyQuit(ev)

NextFollow ==
    \/ SpawnWorkers
    \/ EnterRawMode
    \/ CompileFilters
    \/ RecvMessageFollowed
    \/ \E ev \in Events : KeyQuit(ev)
    \/ \E w \in Targets : ParseTail(w)
    \/ \E w \in Targets : OpenStream(w)
    \/ \E w \in Targets : \E line \in Lines(w) : NextLineFollowed(w, line)
    \/ \E w \in Targets : Send(w)

(* The scheduling of these runs.  The tokio runtime polls every task that   *)
(* can make progress: the steps of start_log_stream before the loop and the *)
(* steps of the workers are weakly fair, and the sources keep yielding      *)
(* lines.  A message that is in the channel when the select is entered is   *)
(* taken, so the receive is weakly fair (there is no pause in these runs).  *)
(* The sleep of the tick branch is created by the iteration that polls it   *)
(* (log.rs:194) and is dropped when the recv branch completes first: the    *)
(* tick fires only when the channel has stayed empty for its 50 ms, so the  *)
(* tick is weakly fair on the empty channel and nothing more.               *)
FollowFairness ==
    /\ WF_vars(SpawnWorkers)
    /\ WF_vars(EnterRawMode)
    /\ WF_vars(CompileFilters)
    /\ WF_vars(RecvMessageFollowed)
    /\ WF_vars(QuietTickQuit)
    /\ \A w \in FollowTargets :
          /\ WF_vars(ParseTail(w))
          /\ WF_vars(OpenStream(w))
          /\ WF_vars(\E line \in Lines(w) : NextLineFollowed(w, line))
          /\ WF_vars(Send(w))

FollowSpec == InitFollow /\ [][NextFollow]_vars /\ FollowFairness

-----------------------------------------------------------------------------
(* C1: after n received messages the history holds exactly the min(n, C)   *)
(* most recently received ones, oldest first, and never more than C.       *)
C1_HistoryIsRecentWindow ==
    /\ Len(history) <= HistoryCap
    /\ history = LastN(received, Min(Len(received), HistoryCap))

\* the buffer is full and its oldest entries have been evicted
C1_Witness ==
    /\ Len(received) > HistoryCap
    /\ Len(history) = HistoryCap
    /\ history[1] # received[1]

(* C2: a received message is rendered iff (no exclude is set or the exclude *)
(* does not match its text) and (no include is set or the include matches   *)
(* its text); a message matching the exclude is never rendered.  Only the   *)
(* text is matched.                                                         *)
C2_RenderedIffFilterKeeps ==
    /\ rendered = SelectSeq(received, ShouldRender)
    /\ \A i \in 1..Len(rendered) :
          exclude # None => ~is_match(exclude, rendered[i].message)

\* both patterns are set, a message matching both was received and discarded,
\* and another message was rendered
C2_Witness ==
    /\ filter # None
    /\ exclude # None
    /\ \E i \in 1..Len(received) :
          /\ is_match(filter, received[i].message)
          /\ is_match(exclude, received[i].message)
    /\ rendered # <<>>

(* C3: the search returns exactly the retained messages whose text contains *)
(* the query ignoring case, in insertion order: nothing when none matches,  *)
(* the whole history for the empty query.                                   *)
C3_SearchIsCaseInsensitiveSubsequence ==
    pc = "SearchResults" =>
        /\ matches = SelectSeq(history,
                               LAMBDA m : ContainsIgnoringCase(m.message, query))
        /\ (query = <<>> => matches = history)
        /\ ((\A i \in 1..Len(history) :
                ~ContainsIgnoringCase(history[i].message, query)) => matches = <<>>)

\* an upper-case query found a lower-case text, and left another entry out
C3_Witness ==
    /\ pc = "SearchResults"
    /\ query = <<"A">>
    /\ matches # <<>>
    /\ Len(matches) < Len(history)

(* C4: what a worker has put into the channel is, in order, the lines its   *)
(* source yielded, each tagged with the worker's pod and container; while   *)
(* the receiver is alive nothing is missing except the message being sent,  *)
(* and a terminated worker has delivered every line.                        *)
C4_WorkerDeliversItsLines ==
    \A w \in Targets :
        /\ IsPrefix(OfWorker(Delivered, w), Owed(w))
        /\ (RxAlive /\ wpc[w] # "send" => OfWorker(Delivered, w) = Owed(w))

\* a worker ended after two different lines, the receiver being alive
C4_Witness ==
    \E w \in Targets :
        /\ wpc[w] = "done"
        /\ RxAlive
        /\ Len(yielded[w]) >= 2
        /\ yielded[w][1] # yielded[w][2]
        /\ OfWorker(Delivered, w) = Owed(w)

(* C5: while the loop runs, every line yielded by any worker is either      *)
(* received, pending in the channel or held by its sending worker, so that  *)
(* when K workers have each ended after m lines and the channel is empty    *)
(* exactly K*m messages have been received.                                 *)
C5_NoLossNoDuplication ==
    RxAlive =>
        /\ Len(received) + Len(chan) + Cardinality({w \in Targets : wpc[w] = "send"})
              = SumYielded(Targets)
        /\ ((\A w \in Targets : wpc[w] = "done" /\ Len(yielded[w]) = MaxLines)
              /\ chan = <<>>
              => Len(received) = Cardinality(Targets) * MaxLines)

\* all workers ended after MaxLines lines each, and the loop has received them all
C5_Witness ==
    /\ pc = "Streaming"
    /\ \A w \in Targets : wpc[w] = "done" /\ Len(yielded[w]) = MaxLines
    /\ chan = <<>>
    /\ Len(received) = Cardinality(Targets) * MaxLines

(* C6: the messages of one worker are received, and appear in the history   *)
(* and in the rendered output, in the order its source produced them; the   *)
(* history is in arrival order.                                             *)
C6_PerWorkerOrder ==
    /\ IsSuffix(history, received)
    /\ \A w \in Targets :
          /\ IsPrefix(OfWorker(received, w), Owed(w))
          /\ IsSubseq(OfWorker(history, w), Owed(w))
          /\ IsSubseq(OfWorker(rendered, w), Owed(w))

\* two different lines of one worker are in the history and rendered, in
\* order, with a message of the other worker received as well
C6_Witness ==
    \E w \in Targets :
        /\ Len(OfWorker(rendered, w)) >= 2
        /\ OfWorker(rendered, w)[1] # OfWorker(rendered, w)[2]
        /\ Len(OfWorker(history, w)) >= 2
        /\ Len(received) > Len(OfWorker(received, w))

(* C7: on every path by which start_log_stream stops after raw mode was     *)
(* enabled, the terminal is back in non-raw mode and the footer line has    *)
(* been cleared.                                                            *)
C7_CleanupOnEveryExit ==
    (pc = "Stopped" /\ term.entered) => (~term.raw /\ term.footer = "cleared")

(* C8: with an invalid include or exclude pattern no worker is ever spawned, *)
(* raw mode is never entered and no message is ever sent or rendered.        *)
C8_InvalidPatternStopsBeforeStart ==
    InvalidPattern =>
        /\ \A w \in Targets : wpc[w] = "unspawned"
        /\ ~term.entered
        /\ Delivered = <<>>
        /\ rendered = <<>>

(* C9: the loop is entered in Streaming; a press of 'q' handled in Streaming *)
(* leads to Stopped, a press of 's' to SearchPaused; a message arrival, an   *)
(* idle tick and an ignored key event leave the control state unchanged.     *)
C9_StreamingTransitions ==
    [][ /\ (CompileFilters /\ result' = "running" => ControlState' = "Streaming")
        /\ \A ev \in Events :
              /\ (KeyQuit(ev) => ControlState' = "Stopped")
              /\ (KeySearch(ev) => ControlState' = "SearchPaused")
              /\ (TickIgnored(ev) => ControlState' = ControlState)
        /\ (RecvMessage => ControlState' = ControlState)
        /\ (TickIdle => ControlState' = ControlState) ]_vars

(* C9 as amended: a press of 's' leads to SearchPaused with raw mode off    *)
(* and the banner printed, unless disabling raw mode fails, and then the    *)
(* loop stops with that error and the terminal untouched, or the print of   *)
(* the banner fails, and then the loop stops by panic with raw mode off and *)
(* nothing printed; a message arrival leaves the control state unchanged    *)
(* unless the message passes the filter and its print fails, and then the   *)
(* loop stops by panic with nothing written, or the message is printed and  *)
(* the footer redraw fails, and then the loop stops by panic after the      *)
(* line; in both cases the message is in the history.                       *)
C9_StreamingTransitionsAmended ==
    [][ /\ (CompileFilters /\ result' = "running" => ControlState' = "Streaming")
        /\ \A ev \in Events :
              /\ (KeyQuit(ev) => ControlState' = "Stopped")
              /\ (KeySearch(ev) =>
                    \/ /\ ControlState' = "SearchPaused"
                       /\ ~term'.raw
                       /\ term'.last = "banner"
                    \/ /\ ControlState' = "Stopped"
                       /\ result' = "Err:disable_raw_mode"
                       /\ term' = term
                    \/ /\ ControlState' = "Stopped"
                       /\ result' = "Panic:println"
                       /\ ~term'.raw
                       /\ term'.last = term.last)
              /\ (TickIgnored(ev) => ControlState' = ControlState)
        /\ (RecvMessage =>
              \/ ControlState' = ControlState
              \/ /\ ControlState' = "Stopped"
                 /\ result' = "Panic:print_log_line"
                 /\ ShouldRender(Head(chan))
                 /\ history'[Len(history')] = Head(chan)
                 /\ term' = term
              \/ /\ ControlState' = "Stopped"
                 /\ result' = "Panic:draw_footer"
                 /\ ShouldRender(Head(chan))
                 /\ history'[Len(history')] = Head(chan)
                 /\ rendered' = Append(rendered, Head(chan))
                 /\ term'.last = "line")
        /\ (TickIdle => ControlState' = ControlState) ]_vars

\* a press of 's' has been handled in Streaming, after a message had arrived:
\* the loop is in SearchPaused, raw mode is off and the banner is printed
C9_Witness ==
    /\ pc = "SearchQuery"
    /\ ~term.raw
    /\ term.last = "banner"
    /\ received # <<>>

(* C10: from SearchPaused the loop goes nowhere but back to Streaming, with *)
(* raw mode enabled again and the footer redrawn.                           *)
C10_SearchPausedReturnsToStreaming ==
    [][ ControlState = "SearchPaused" =>
          \/ ControlState' = "SearchPaused"
          \/ /\ ControlState' = "Streaming"
             /\ term'.raw
             /\ term'.footer = "drawn"
             /\ term'.last = "footer" ]_vars

(* C11: the messages produced while the loop is in SearchPaused are not     *)
(* lost.  While paused every line a source has yielded is received, in the  *)
(* channel, or held by its worker, in the order of the source, and the      *)
(* pause takes nothing out of the channel; what is received from a worker   *)
(* is always the first lines of its source, each once; every message        *)
(* received becomes at that step the newest entry of the history, which is  *)
(* always the most recent part of what was received; and in a run with a    *)
(* pause, unless the pause never ends or the loop stops, every line the     *)
(* sources have yielded ends up received, so that what was received from    *)
(* each worker is exactly what its source yielded: the n-th line a source   *)
(* has yielded by the time of a pause eventually is the n-th message        *)
(* received from its worker.                                                *)
C11_PausedMessagesNotLost ==
    /\ [](ControlState = "SearchPaused" =>
            \A w \in Targets :
                Owed(w) = OfWorker(Delivered, w)
                            \o (IF wpc[w] = "send" THEN <<pending[w]>> ELSE <<>>))
    /\ [][ControlState = "SearchPaused" /\ ControlState' = "SearchPaused" =>
            /\ received' = received
            /\ history' = history
            /\ IsPrefix(chan, chan')]_vars
    /\ [](\A w \in Targets : IsPrefix(OfWorker(received, w), Owed(w)))
    /\ [][received' # received =>
            /\ received' = Append(received, Head(chan))
            /\ history'[Len(history')] = Head(chan)]_vars
    /\ [](history = LastN(received, Min(Len(received), HistoryCap)))
    /\ \/ [](ControlState # "SearchPaused")
       \/ <>[](ControlState = "SearchPaused")
       \/ <>[](\/ pc = "Stopped"
               \/ \A w \in LiveTargets : OfWorker(received, w) = Owed(w))
    /\ \/ <>[](ControlState = "SearchPaused")
       \/ \A w \in LiveTargets : \A n \in 1..MaxLines :
             (ControlState = "SearchPaused" /\ Len(yielded[w]) >= n)
                ~> \/ pc = "Stopped"
                   \/ /\ Len(OfWorker(received, w)) >= n
                      /\ OfWorker(received, w)[n] = Owed(w)[n]

\* the loop is paused, the channel is full with two different lines of one
\* worker, and a worker is blocked in its send
C11_Witness ==
    /\ ControlState = "SearchPaused"
    /\ Len(chan) = ChanCap
    /\ \E i, j \in 1..Len(chan) :
          /\ i < j
          /\ chan[i].pod_name = chan[j].pod_name
          /\ chan[i].message # chan[j].message
    /\ \E w \in Targets : wpc[w] = "send"

(* C12: a target whose stream fails to open, or ends, terminates only its   *)
(* own worker: the step changes nothing of the control loop (its position,  *)
(* its result, the channel, the history, what it received and rendered, the *)
(* terminal) and nothing of the other workers, and with a worker dead every *)
(* other worker                                                             *)
(* still delivers each line of its source, all of them received once the    *)
(* channel is empty.                                                        *)
C12_DeadTargetOnlyEndsItsWorker ==
    /\ [][\A w \in Targets :
            (wpc[w] \in {"open", "read"} /\ wpc'[w] = "done") =>
                /\ UNCHANGED <<pc, result, chan, history, received, rendered,
                               term, query, matches>>
                /\ \A v \in Targets \ {w} :
                      /\ wpc'[v] = wpc[v]
                      /\ pending'[v] = pending[v]
                      /\ yielded'[v] = yielded[v]]_vars
    /\ [](\A w \in Targets : \A v \in Targets \ {w} :
            (wpc[w] = "done" /\ RxAlive) =>
                /\ (wpc[v] # "send" => OfWorker(Delivered, v) = Owed(v))
                /\ (wpc[v] = "done" /\ chan = <<>> =>
                        OfWorker(received, v) = Owed(v)))

\* a worker ended without a single line, the other worker ended after MaxLines
\* lines, and the loop, still streaming, has received them all
C12_Witness ==
    \E w \in Targets : \E v \in Targets \ {w} :
        /\ wpc[w] = "done"
        /\ yielded[w] = <<>>
        /\ wpc[v] = "done"
        /\ Len(yielded[v]) = MaxLines
        /\ pc = "Streaming"
        /\ result = "running"
        /\ OfWorker(received, v) = Owed(v)

(* C13: when the source of a worker has yielded a read error the worker     *)
(* stops: from then on it takes no further line from its source, puts no    *)
(* further message into the channel, and its only step is to terminate.     *)
C13_ReadErrorStopsWorker ==
    [][\A w \in Targets :
          failed[w] =>
              /\ wpc'[w] \in {wpc[w], "done"}
              /\ pending'[w] = pending[w]
              /\ Len(OfWorker(Delivered', w)) <= Len(OfWorker(Delivered, w))]_vars

(* C14: once rx has been dropped, a worker that is sending is not blocked:  *)
(* its send can complete at once, it completes by failing (nothing enters   *)
(* the channel) and the worker terminates there; so, the runtime polling    *)
(* the worker again, no worker stays in a send forever, the workers that    *)
(* were blocked on a full channel when the loop stopped included.           *)
C14_SendFailsOnceReceiverDropped ==
    /\ [](\A w \in Targets : (~RxAlive /\ wpc[w] = "send") => ENABLED Send(w))
    /\ [][~RxAlive =>
            /\ chan' = chan
            /\ \A w \in Targets :
                  (wpc[w] = "send" /\ wpc'[w] # "send") => wpc'[w] = "done"]_vars
    /\ \A w \in LiveTargets :
          (~RxAlive /\ wpc[w] = "send") ~> (wpc[w] = "done")

\* the loop has stopped and every worker has terminated, one of them at a send
\* that failed: more lines were yielded than were received or could have been
\* in the channel
C14_Witness ==
    /\ pc = "Stopped"
    /\ \A w \in Targets : wpc[w] = "done"
    /\ SumYielded(Targets) > Len(received) + ChanCap

(* C15: the channel never holds more than ChanCap messages.  A worker that  *)
(* sends to a full channel cannot complete its send, and stays blocked      *)
(* until the loop receives a message (or stops); meanwhile the loop, when   *)
(* streaming, can receive and can handle a press of 'q' or 's', and every   *)
(* other worker that is reading can take the next line of its source.       *)
C15_BoundedChannelBackpressure ==
    /\ [](Len(chan) <= ChanCap)
    /\ [](\A w \in Targets :
            Blocked(w) =>
                /\ ~ENABLED Send(w)
                /\ (pc = "Streaming" =>
                      /\ ENABLED RecvMessage
                      /\ \A ev \in Events :
                            /\ (IsPress(ev, "q") => ENABLED KeyQuit(ev))
                            /\ (IsPress(ev, "s") => ENABLED KeySearch(ev)))
                /\ \A v \in Targets \ {w} :
                      wpc[v] = "read" =>
                          \A line \in NextLines(v) : ENABLED NextLine(v, line))
    /\ [][\A w \in Targets :
            Blocked(w) =>
                \/ Blocked(w)'
                \/ received' = Append(received, Head(chan))
                \/ pc' = "Stopped"]_vars

\* a worker is blocked on the full channel while the loop is streaming and the
\* other worker is reading a source that has more lines
C15_Witness ==
    \E w \in Targets : \E v \in Targets \ {w} :
        /\ Blocked(w)
        /\ pc = "Streaming"
        /\ wpc[v] = "read"
        /\ NextLines(v) # {}

(* C16: in scenario A, under every interleaving of the two workers, no      *)
(* rendered line contains "start", the rendered lines of each target are    *)
(* "ready" then "error: boom", and once both sources have emitted their     *)
(* three lines and the loop has received all six messages the rendered      *)
(* output is exactly these four lines.                                      *)
C16_ScenarioA ==
    /\ \A i \in 1..Len(rendered) : ~contains(rendered[i].message, ScenarioExclude)
    /\ \A w \in Targets :
          IsPrefix(Texts(OfWorker(rendered, w)), <<ScenarioLines[2], ScenarioLines[3]>>)
    /\ ((\A w \in Targets : yielded[w] = ScenarioLines) /\ Len(received) = 6
          => /\ Len(rendered) = 4
             /\ \A w \in Targets :
                   Texts(OfWorker(rendered, w)) = <<ScenarioLines[2], ScenarioLines[3]>>)

\* all six messages were received, the two workers interleaved, and the loop
\* is still streaming with four lines rendered
C16_Witness ==
    /\ targets = ScenarioTargets
    /\ exclude = ScenarioExclude
    /\ pc = "Streaming"
    /\ Len(received) = 6
    /\ Len(rendered) = 4
    /\ rendered[1].pod_name # rendered[2].pod_name
    /\ rendered[3].pod_name = rendered[2].pod_name

(* C17: raw mode is on exactly while the loop is in Streaming: on from      *)
(* before the first iteration, off throughout SearchPaused, on again on the *)
(* return to Streaming, off in Stopped; and the calls alternate, every      *)
(* enable_raw_mode made with raw mode off and every disable_raw_mode with   *)
(* raw mode on, the first call an enable and the last a disable.            *)
C17_RawModeExactlyWhileStreaming ==
    /\ []((pc = "compile" \/ ControlState = "Streaming") => term.raw)
    /\ [](ControlState = "SearchPaused" => ~term.raw)
    /\ [](ControlState = "Stopped" => ~term.raw)
    /\ [][ /\ (EnterRawMode \/ SearchSelect => ~term.raw)
           /\ \A ev \in Events : (KeySearch(ev) \/ KeyQuit(ev) => term.raw) ]_vars

(* C18: every printed log line is followed at once by a footer redraw and   *)
(* the footer is drawn on entering Streaming, so that whenever the loop is  *)
(* in Streaming, waiting for its next event, the footer is drawn and is the *)
(* most recent write to the terminal.                                       *)
C18_FooterIsLastWriteInStreaming ==
    pc = "Streaming" => (term.footer = "drawn" /\ term.last = "footer")

(* C19: whatever size the terminal reports when draw_footer is called, the  *)
(* footer it emits is exactly as long as the terminal is wide, never        *)
(* longer, on row rows - 1 with rows at least 1; and the size is the one    *)
(* reported at that call.                                                   *)
C19_FooterFitsWidth ==
    /\ [](term.footer = "drawn" =>
            /\ term.flen = term.fsize[1]
            /\ term.flen <= term.fsize[1]
            /\ term.fsize[2] >= 1
            /\ term.frow = term.fsize[2] - 1)
    /\ [][(EnterRawMode \/ SearchSelect \/ RecvMessage) /\ term'.last = "footer"
            => term'.fsize = size]_vars

(* C20: no step of a stream worker (parsing the tail and opening the        *)
(* stream, taking a line or a read error from the source, end of stream,    *)
(* send) changes the terminal or the history, nor anything else of the      *)
(* control loop but the channel.                                            *)
C20_WorkersTouchOnlyTheChannel ==
    [][\A w \in Targets :
          (\/ ParseTail(w)
           \/ OpenStream(w)
           \/ \E line \in Lines(w) : NextLine(w, line)
           \/ NextError(w)
           \/ EndOfStream(w)
           \/ Send(w))
          => UNCHANGED <<term, history, received, rendered, pc, result,
                         query, matches>>]_vars

(* C21: every message received in Streaming is appended to the history      *)
(* before the filter is asked and whatever the filter answers, so the       *)
(* history, and a search over it, holds messages that the filter discarded  *)
(* and that were never rendered; the rendered lines are a subsequence of    *)
(* the messages appended to the history, and a line is rendered only after  *)
(* it became the newest history entry.                                      *)
C21_HistoryKeepsDiscardedMessages ==
    /\ [][received' # received =>
            /\ ControlState = "Streaming"
            /\ chan # <<>>
            /\ received' = Append(received, Head(chan))
            /\ history' = LastN(Append(history, Head(chan)),
                                Min(Len(history) + 1, HistoryCap))]_vars
    /\ [][rendered' # rendered =>
            /\ received' # received
            /\ rendered' = Append(rendered, history'[Len(history')])]_vars
    /\ [](IsSubseq(rendered, received))

\* a search shows a message that the filter discarded and that was never
\* rendered, next to rendered ones
C21_Witness ==
    /\ pc = "SearchResults"
    /\ rendered # <<>>
    /\ \E i \in 1..Len(matches) :
          /\ ~ShouldRender(matches[i])
          /\ \A j \in 1..Len(rendered) : rendered[j] # matches[i]
          /\ \E k \in 1..Len(history) : history[k] = matches[i]

(* C22: the whole SearchPaused interaction leaves the history unchanged:    *)
(* no step taken while the loop is paused (the query, the matches, the      *)
(* selection or its cancellation, the return to the loop, the steps of the  *)
(* workers) adds, removes or reorders a history entry, and none receives a  *)
(* message; the matches shown are entries of the history and stay as they   *)
(* are while workers send; back in Streaming a waiting message can be       *)
(* received again.                                                          *)
C22_SearchLeavesHistoryUnchanged ==
    /\ [][ControlState = "SearchPaused" =>
            /\ history' = history
            /\ received' = received
            /\ rendered' = rendered]_vars
    /\ [][pc = "SearchResults" /\ pc' = "SearchResults" =>
            /\ matches' = matches
            /\ query' = query]_vars
    /\ [](pc = "SearchResults" => IsSubseq(matches, history))
    /\ [](ControlState = "Streaming" /\ chan # <<>> => ENABLED RecvMessage)

\* the matches are shown while a message that contains the query, and is in
\* neither the history nor the matches, waits in the channel
C22_Witness ==
    /\ pc = "SearchResults"
    /\ matches # <<>>
    /\ chan # <<>>
    /\ ContainsIgnoringCase(chan[1].message, query)
    /\ \A i \in 1..Len(history) : history[i] # chan[1]
    /\ \A i \in 1..Len(matches) : matches[i] # chan[1]

(* C23: in Streaming, handling an event that is not a press of 'q' or 's'   *)
(* (a press of another key, a key event of another kind, an event that is   *)
(* not a key event) is a no-op: it is handled without failing and changes   *)
(* neither the control state, the history, the raw-mode flag, the rendered  *)
(* output nor the channel.                                                  *)
C23_OtherEventsAreNoOps ==
    /\ [][\A ev \in Events :
            TickIgnored(ev) =>
                UNCHANGED <<pc, result, history, received, rendered, term, chan,
                            query, matches>>]_vars
    /\ [](ControlState = "Streaming" =>
            \A ev \in Events :
                ~IsPress(ev, "q") /\ ~IsPress(ev, "s") => ENABLED TickIgnored(ev))

\* the loop is streaming in raw mode with entries in the history, rendered
\* lines and a message waiting in the channel, where such an event is handled
C23_Witness ==
    /\ ControlState = "Streaming"
    /\ term.raw
    /\ history # <<>>
    /\ rendered # <<>>
    /\ chan # <<>>
    /\ \E ev \in Events : ev.code = "q" /\ ENABLED TickIgnored(ev)

\* every worker has terminated and the channel is empty, hence closed, while
\* the loop is in Streaming
ChannelClosed ==
    /\ ControlState = "Streaming"
    /\ chan = <<>>
    /\ \A w \in Targets : wpc[w] = "done"

(* C24: when every worker has terminated and the channel is empty and       *)
(* closed the loop neither stops nor fails on that account: it stays in     *)
(* Streaming with the channel closed, receives nothing, keeps ticking (a    *)
(* tick without a key press leaves it there, running), and leaves Streaming *)
(* only by a press of 'q' (to Stopped), a press of 's' (to SearchPaused,    *)
(* the history retained) or a failure of the event source; the two presses  *)
(* can still be handled.                                                    *)
C24_ClosedChannelKeepsLoopRunning ==
    /\ [][ChannelClosed =>
            \/ ChannelClosed' /\ UNCHANGED <<history, received, rendered, result>>
            \/ \E ev \in Events : IsPress(ev, "q") /\ KeyQuit(ev)
            \/ \E ev \in Events : IsPress(ev, "s") /\ KeySearch(ev) /\ history' = history
            \/ TickError]_vars
    /\ [][ChannelClosed /\ (TickIdle \/ \E ev \in Events : TickIgnored(ev)) =>
            ChannelClosed' /\ result' = "running"]_vars
    /\ [](ChannelClosed =>
            /\ ~ENABLED RecvMessage
            /\ ENABLED TickIdle
            /\ \E ev \in Events :
                  ENABLED (KeySearch(ev) /\ ControlState' = "SearchPaused")
            /\ \E ev \in Events :
                  ENABLED (KeyQuit(ev) /\ ControlState' = "Stopped" /\ result' = "Ok"))

\* after every worker has ended and every message was received, the operator
\* searches the retained history and is shown matches
C24_Witness ==
    /\ pc = "SearchResults"
    /\ chan = <<>>
    /\ \A w \in Targets : wpc[w] = "done" /\ yielded[w] # <<>>
    /\ Len(received) = SumYielded(Targets)
    /\ matches # <<>>

(* C25: in Streaming a pending press of the quit key is eventually handled  *)
(* and the loop reaches Stopped under fair scheduling, even when the        *)
(* workers keep delivering messages without pause.                          *)
C25_QuitIsEventuallyHandled ==
    (ControlState = "Streaming") ~> (ControlState = "Stopped")

(* C26: Stopped is absorbing: the press of 'q' stops the loop without       *)
(* receiving or rendering anything, the messages still in the channel at    *)
(* that moment are dropped, and from then on no step receives a message,    *)
(* appends to the history, renders a line, handles a key or changes the     *)
(* control state and the result.                                            *)
C26_StoppedIsAbsorbing ==
    /\ [][ControlState = "Stopped" =>
            UNCHANGED <<pc, result, history, received, rendered, chan,
                        query, matches>>]_vars
    /\ [][\A ev \in Events :
            KeyQuit(ev) =>
                /\ ControlState' = "Stopped"
                /\ chan' = <<>>
                /\ UNCHANGED <<history, received, rendered>>]_vars
    /\ [](ControlState = "Stopped" =>
            /\ chan = <<>>
            /\ ~ENABLED RecvMessage
            /\ ~ENABLED TickIdle
            /\ \A ev \in Events :
                  /\ ~ENABLED KeyQuit(ev)
                  /\ ~ENABLED KeySearch(ev)
                  /\ ~ENABLED TickIgnored(ev))

\* the loop stopped on 'q' while a message of a worker was in the channel: the
\* worker had sent every line it read, and one of them was never received
C26_Witness ==
    /\ pc = "Stopped"
    /\ result = "Ok"
    /\ rendered # <<>>
    /\ \E w \in Targets :
          /\ wpc[w] = "read"
          /\ Len(OfWorker(received, w)) < Len(yielded[w])

====
